---- MODULE Spec2Model ----
(***************************************************************************)
(* Model of the realtime part of src/server.js: the socket.io handshake    *)
(* middleware, the 'connection' handler with its 'private_message' and     *)
(* 'disconnect' listeners, the `online` presence map, the Message          *)
(* collection and the /api/messages history query.                         *)
(***************************************************************************)
EXTENDS Integers, Sequences, FiniteSets, TLC

\* ---------------------------------------------------------------- bounds
MaxSockets == 3
MaxCalls == 2
MaxSteps == 10

\* ---------------------------------------------------------------- constants
HistoryLimit == 100

Ids == {"u1", "u2"}
Sockets == 1..MaxSockets
Undefined == "undefined"
NoSocket == 0
Null == "null"
NoToken == [id |-> Undefined, ok |-> FALSE]
BadToken == [id |-> "u1", ok |-> FALSE]
Tokens == {NoToken, BadToken} \cup [id : Ids, ok : {TRUE}]
Contents ==
  { [text |-> Undefined, mediaUrl |-> Undefined, mediaType |-> Undefined],
    [text |-> "hi", mediaUrl |-> "m.png", mediaType |-> "image/png"] }
\* A payload is whatever the client sends: it may also carry a `from` field.
\* The payload without content is sent to u1 only.
Payloads ==
  { p \in { [to |-> u, from |-> f, text |-> b.text, mediaUrl |-> b.mediaUrl,
             mediaType |-> b.mediaType] :
               u \in Ids, f \in {Undefined, "u2"}, b \in Contents } :
      p.text = Undefined => (p.to = "u1" /\ p.from = Undefined) }

VARIABLES st, token, user, online, store, older, calls, inbox, running, steps

vars == <<st, token, user, online, store, older, calls, inbox, running, steps>>

\* ---------------------------------------------------------------- helpers
\* JavaScript truthiness of the values a payload field can take
Falsy(v) == v \in {Undefined, Null, ""}

\* a || b
OrElse(v, d) == IF Falsy(v) THEN d ELSE v

\* The Map `online` keeps its entries in insertion order: a sequence of
\* [k, v] entries with pairwise distinct keys.
MapHas(m, k) == \E i \in 1..Len(m) : m[i].k = k

\* online.get(k): the stored socket id, or NoSocket for undefined
MapGet(m, k) ==
  IF MapHas(m, k) THEN m[CHOOSE i \in 1..Len(m) : m[i].k = k].v ELSE NoSocket

MapSet(m, k, v) ==
  IF MapHas(m, k)
    THEN [i \in 1..Len(m) |-> IF m[i].k = k THEN [k |-> k, v |-> v] ELSE m[i]]
    ELSE Append(m, [k |-> k, v |-> v])

MapDelete(m, k) == SelectSeq(m, LAMBDA e : e.k # k)

\* Array.from(online.keys())
MapKeys(m) == [i \in 1..Len(m) |-> m[i].k]

ToSet(q) == {q[i] : i \in 1..Len(q)}

\* Faulty variant of JwtVerify: the verification error is ignored, any presented
\* token is decoded.
JwtVerifyPresentOnly(tok) == tok # NoToken

\* jwt.verify(token, JWT_SECRET): a token that is present, well signed and
\* not expired decodes; anything else is an error.
JwtVerify(tok) == tok # NoToken /\ tok.ok

\* Faulty variant of Connected: the emit also reaches sockets whose handshake
\* is still pending.
ConnectedOrPending(s_st) == {s \in Sockets : s_st[s] \in {"pending", "active"}}

\* Sockets currently joined to the namespace (socket.io adds a socket before
\* the 'connection' event and removes it before the 'disconnect' event).
Connected(s_st) == {s \in Sockets : s_st[s] = "active"}

\* io.emit(ev): one event to every connected socket
IoEmit(inb, targets, ev) ==
  [s \in Sockets |-> IF s \in targets THEN Append(inb[s], ev) ELSE inb[s]]

\* socket.emit(ev): dropped when the socket is no longer connected
SocketEmit(inb, s, ev) ==
  [t \in Sockets |-> IF t = s /\ st[s] = "active" THEN Append(inb[t], ev) ELSE inb[t]]

\* Faulty variant of IoToEmit: the .to(room) is lost and the emit is io.emit.
IoToEmitBroadcast(inb, room, ev) ==
  [t \in Sockets |-> IF st[t] = "active" THEN Append(inb[t], ev) ELSE inb[t]]

\* io.to(room).emit(ev): every socket has joined the room named by its own id
IoToEmit(inb, room, ev) ==
  [t \in Sockets |-> IF t = room /\ st[t] = "active" THEN Append(inb[t], ev) ELSE inb[t]]

OnlineUsers(m) == [type |-> "online_users", ids |-> MapKeys(m)]

\* Message.findById(id).populate('from', 'email displayName')
UserDoc(u) == [id |-> u, email |-> u, displayName |-> u]

Populate(m) ==
  [type |-> "message", id |-> m.id, from |-> UserDoc(m.from), to |-> m.to,
   text |-> m.text, mediaUrl |-> m.mediaUrl, mediaType |-> m.mediaType,
   createdAt |-> m.createdAt]

FindById(id) == store[CHOOSE i \in 1..Len(store) : store[i].id = id]

\* ---------------------------------------------------------------- history query
\* .sort('createdAt'): ascending by creation time
RECURSIVE SortByCreatedAt(_)
SortByCreatedAt(S) ==
  IF S = {} THEN <<>>
  ELSE LET first == CHOOSE m \in S : \A n \in S : m.createdAt <= n.createdAt
       IN <<first>> \o SortByCreatedAt(S \ {first})

\* Documents of the collection that match
\* { $or: [ {from: me, to: other}, {from: other, to: me} ] }
Matching(me, other) ==
  {store[i] : i \in {j \in 1..Len(store) :
      \/ store[j].from = me /\ store[j].to = other
      \/ store[j].from = other /\ store[j].to = me}}

OlderMatching(me, other) == IF {me, other} = {"u1", "u2"} THEN older ELSE 0

\* Message.find(...).sort('createdAt').limit(100): the first HistoryLimit
\* matching documents in creation order, i.e. the documents from before the
\* start first, then as many of the newer ones as still fit.
Find(me, other) ==
  LET recent == SortByCreatedAt(Matching(me, other))
      n == OlderMatching(me, other)
      room == IF n >= HistoryLimit THEN 0 ELSE HistoryLimit - n
  IN [older |-> IF n >= HistoryLimit THEN HistoryLimit ELSE n,
      recent |-> SubSeq(recent, 1, IF Len(recent) < room THEN Len(recent) ELSE room)]

\* authMiddleware, then app.get('/api/messages')
ApiMessages(tok, other) ==
  IF tok = NoToken THEN [status |-> 401, error |-> "no token"]
  ELSE IF ~JwtVerify(tok) THEN [status |-> 401, error |-> "invalid token"]
  ELSE IF Falsy(other) THEN [status |-> 400, error |-> "with param required"]
  ELSE [status |-> 200, messages |-> Find(tok.id, other)]

\* ---------------------------------------------------------------- initial state
\* The process has just started: nobody is connected. `store` holds the
\* Message documents created since then; `older` is the number of documents
\* exchanged between u1 and u2 that the collection already held at start
\* (every one of them older than any document created afterwards).
Fresh ==
  /\ st = [s \in Sockets |-> "idle"]
  /\ token = [s \in Sockets |-> NoToken]
  /\ user = [s \in Sockets |-> Undefined]
  /\ online = <<>>
  /\ store = <<>>
  /\ calls = <<>>
  /\ inbox = [s \in Sockets |-> <<>>]
  /\ running = TRUE
  /\ steps = 0

Init == Fresh /\ older = 0

\* the server starts over a collection that holds one message of the pair
\* u1,u2 less than the history query returns
InitPrior == Fresh /\ older = HistoryLimit - 1

\* ---------------------------------------------------------------- exploration budget
\* Every handler step is counted; behaviours are explored up to MaxSteps
\* steps of a running process.
Tick == running /\ steps < MaxSteps /\ steps' = steps + 1

\* ---------------------------------------------------------------- connection lifecycle
\* A client opens a transport and presents its handshake credential. Socket
\* ids are handed out in order, and the single-threaded server takes up one
\* handshake at a time. The two identities are interchangeable to the
\* server, so the first valid credential presented is one of u1.
Open(s, tok) ==
  /\ Tick
  /\ st[s] = "idle"
  /\ \A r \in Sockets : r < s => st[r] # "idle"
  /\ \A r \in Sockets : st[r] # "pending"
  /\ tok.ok => (tok.id = "u1" \/ \E r \in Sockets : token[r].ok)
  /\ st' = [st EXCEPT ![s] = "pending"]
  /\ token' = [token EXCEPT ![s] = tok]
  /\ UNCHANGED <<user, online, store, older, calls, inbox, running>>

\* Faulty variant of Handshake: the snapshot goes out with socket.broadcast.emit,
\* which leaves out the connecting socket itself.
HandshakeBroadcastOthers(s) ==
  /\ Tick
  /\ st[s] = "pending"
  /\ IF JwtVerify(token[s])
       THEN /\ user' = [user EXCEPT ![s] = token[s].id]
            /\ st' = [st EXCEPT ![s] = "active"]
            /\ online' = MapSet(online, user'[s], s)
            /\ inbox' = IoEmit(inbox, Connected(st), OnlineUsers(online'))
       ELSE /\ st' = [st EXCEPT ![s] = "closed"]
            /\ UNCHANGED <<user, online, inbox>>
  /\ UNCHANGED <<token, store, older, calls, running>>

\* io.use middleware, then io.on('connection'). jwt.verify with a string
\* secret calls back synchronously and socket.io fires 'connection' from
\* process.nextTick, so no other handler runs in between.
Handshake(s) ==
  /\ Tick
  /\ st[s] = "pending"
  /\ IF JwtVerify(token[s])
       THEN /\ user' = [user EXCEPT ![s] = token[s].id]
            /\ st' = [st EXCEPT ![s] = "active"]
            /\ online' = MapSet(online, user'[s], s)
            /\ inbox' = IoEmit(inbox, Connected(st'), OnlineUsers(online'))
       ELSE /\ st' = [st EXCEPT ![s] = "closed"]
            /\ UNCHANGED <<user, online, inbox>>
  /\ UNCHANGED <<token, store, older, calls, running>>

\* Faulty variant of Disconnect: the key is deleted only when it still holds
\* the id of the closing socket.
DisconnectIfCurrent(s) ==
  /\ Tick
  /\ st[s] = "active"
  /\ st' = [st EXCEPT ![s] = "closed"]
  /\ online' = IF MapGet(online, user[s]) = s THEN MapDelete(online, user[s])
                ELSE online
  /\ inbox' = IoEmit(inbox, Connected(st'), OnlineUsers(online'))
  /\ UNCHANGED <<token, user, store, older, calls, running>>

\* socket.on('disconnect')
Disconnect(s) ==
  /\ Tick
  /\ st[s] = "active"
  /\ st' = [st EXCEPT ![s] = "closed"]
  /\ online' = MapDelete(online, user[s])
  /\ inbox' = IoEmit(inbox, Connected(st'), OnlineUsers(online'))
  /\ UNCHANGED <<token, user, store, older, calls, running>>

\* ---------------------------------------------------------------- message routing
\* socket.on('private_message'), up to the first await: the document is
\* built (with its _id and its createdAt default) and Message.create starts.
NewId == Len(calls) + 1

Now == Len(calls) + 1

\* Faulty variant of PrivateMessage: the sender is taken from the payload when
\* the payload names one.
PrivateMessageFromPayload(s, payload) ==
  /\ Tick
  /\ st[s] = "active"
  /\ Len(calls) < MaxCalls
  /\ calls' = Append(calls,
       [sock |-> s, pc |-> "create",
        doc |-> [id |-> NewId, from |-> OrElse(payload.from, user[s]),
                 to |-> payload.to,
                 text |-> OrElse(payload.text, ""),
                 mediaUrl |-> OrElse(payload.mediaUrl, Null),
                 mediaType |-> OrElse(payload.mediaType, Null),
                 createdAt |-> Now]])
  /\ UNCHANGED <<st, token, user, online, store, older, inbox, running>>

PrivateMessage(s, payload) ==
  /\ Tick
  /\ st[s] = "active"
  /\ Len(calls) < MaxCalls
  /\ calls' = Append(calls,
       [sock |-> s, pc |-> "create",
        doc |-> [id |-> NewId, from |-> user[s], to |-> payload.to,
                 text |-> OrElse(payload.text, ""),
                 mediaUrl |-> OrElse(payload.mediaUrl, Null),
                 mediaType |-> OrElse(payload.mediaType, Null),
                 createdAt |-> Now]])
  /\ UNCHANGED <<st, token, user, online, store, older, inbox, running>>

\* No document is built for an event that no listener takes: only its
\* number in the order of arrival is kept.
NoDoc(n) ==
  [id |-> n, from |-> Undefined, to |-> Undefined, text |-> Undefined,
   mediaUrl |-> Undefined, mediaType |-> Undefined, createdAt |-> 0]

\* Faulty variant of EarlyIntent: the listener is already there during the
\* handshake and starts a route call for the identity the token names.
EarlyIntentRouted(s, payload) ==
  /\ Tick
  /\ st[s] = "pending"
  /\ Len(calls) < MaxCalls
  /\ calls' = Append(calls,
       [sock |-> s, pc |-> "create",
        doc |-> [id |-> NewId, from |-> token[s].id, to |-> payload.to,
                 text |-> OrElse(payload.text, ""),
                 mediaUrl |-> OrElse(payload.mediaUrl, Null),
                 mediaType |-> OrElse(payload.mediaType, Null),
                 createdAt |-> Now]])
  /\ UNCHANGED <<st, token, user, online, store, older, inbox, running>>

\* A 'private_message' event that reaches the server while the socket is
\* still in its handshake: the listener is only registered by the connection
\* handler, so nothing runs and the event is gone.
EarlyIntent(s, payload) ==
  /\ Tick
  /\ st[s] = "pending"
  /\ Len(calls) < MaxCalls
  /\ calls' = Append(calls,
       [sock |-> s, pc |-> "dropped", doc |-> NoDoc(NewId)])
  /\ UNCHANGED <<st, token, user, online, store, older, inbox, running>>

\* Faulty variant of CreateOk: the events are emitted as soon as the append
\* has been started, and the append is lost.
CreateOkEmitsUnsaved(c) ==
  /\ Tick
  /\ calls[c].pc = "create"
  /\ inbox' = SocketEmit(inbox, calls[c].sock, Populate(calls[c].doc))
  /\ calls' = [calls EXCEPT ![c].pc = "create_failed"]
  /\ UNCHANGED <<st, token, user, online, store, older, running>>

\* await Message.create(...) resolves: the record is in the collection
CreateOk(c) ==
  /\ Tick
  /\ calls[c].pc = "create"
  /\ store' = Append(store, calls[c].doc)
  /\ calls' = [calls EXCEPT ![c].pc = "find"]
  /\ UNCHANGED <<st, token, user, online, older, inbox, running>>

\* Faulty variant of Deliver: the message goes out with io.emit, to every connected
\* socket.
DeliverToAll(inb, s, populated) == IoEmit(inb, Connected(st), populated)

\* The rest of the handler after findById resolves: the echo to the sender,
\* the lookup of the recipient in `online` and the emit to its socket id.
Deliver(inb, s, populated) ==
  LET echoed == SocketEmit(inb, s, populated)
      recSocketId == MapGet(online, populated.to)
  IN IF recSocketId # NoSocket
       THEN IoToEmit(echoed, recSocketId, populated)
       ELSE echoed

\* A rejected await leaves the async listener with a rejected promise that
\* nothing handles: the runtime either only warns or terminates the process,
\* depending on its unhandled-rejections mode.
Rejected(c, label, exits) ==
  /\ calls' = [calls EXCEPT ![c].pc = label]
  /\ running' = ~exits
  /\ UNCHANGED <<st, token, user, online, older, inbox>>

\* Faulty variant of CreateFail: the events are emitted before the outcome of
\* Message.create is known.
CreateFailDelivered(c, exits) ==
  /\ Tick
  /\ calls[c].pc = "create"
  /\ calls' = [calls EXCEPT ![c].pc = "create_failed"]
  /\ running' = ~exits
  /\ inbox' = Deliver(inbox, calls[c].sock, Populate(calls[c].doc))
  /\ UNCHANGED <<st, token, user, online, older, store>>

\* await Message.create(...) rejects
CreateFail(c, exits) ==
  /\ Tick
  /\ calls[c].pc = "create"
  /\ Rejected(c, "create_failed", exits)
  /\ UNCHANGED store

\* await Message.findById(...).populate(...).exec() rejects
FindFail(c, exits) ==
  /\ Tick
  /\ calls[c].pc = "find"
  /\ Rejected(c, "find_failed", exits)
  /\ UNCHANGED store

\* Faulty variant of FindOk: the continuation registers the sender again
\* before it emits.
FindOkReRegisters(c) ==
  /\ Tick
  /\ calls[c].pc = "find"
  /\ online' = MapSet(online, calls[c].doc.from, calls[c].sock)
  /\ inbox' = Deliver(inbox, calls[c].sock, Populate(FindById(calls[c].doc.id)))
  /\ calls' = [calls EXCEPT ![c].pc = "done"]
  /\ UNCHANGED <<st, token, user, store, older, running>>

\* Faulty variant of FindOk: the continuation returns without emitting when
\* the sending socket is gone.
FindOkSenderGone(c) ==
  /\ Tick
  /\ calls[c].pc = "find"
  /\ inbox' = IF st[calls[c].sock] = "active"
                THEN Deliver(inbox, calls[c].sock, Populate(FindById(calls[c].doc.id)))
                ELSE inbox
  /\ calls' = [calls EXCEPT ![c].pc = "done"]
  /\ UNCHANGED <<st, token, user, online, store, older, running>>

FindOk(c) ==
  /\ Tick
  /\ calls[c].pc = "find"
  /\ inbox' = Deliver(inbox, calls[c].sock, Populate(FindById(calls[c].doc.id)))
  /\ calls' = [calls EXCEPT ![c].pc = "done"]
  /\ UNCHANGED <<st, token, user, online, store, older, running>>

CallIds == 1..Len(calls)

Next ==
  \/ \E s \in Sockets, tok \in Tokens : Open(s, tok)
  \/ \E s \in Sockets : Handshake(s)
  \/ \E s \in Sockets : Disconnect(s)
  \/ \E s \in Sockets, payload \in Payloads : PrivateMessage(s, payload)
  \/ \E s \in Sockets, payload \in Payloads : EarlyIntent(s, payload)
  \/ \E c \in CallIds : CreateOk(c)
  \/ \E c \in CallIds, exits \in BOOLEAN : CreateFail(c, exits)
  \/ \E c \in CallIds : FindOk(c)
  \/ \E c \in CallIds, exits \in BOOLEAN : FindFail(c, exits)

Spec == Init /\ [][Next]_vars

\* The same server started over a collection that already holds messages
SpecPrior == InitPrior /\ [][Next]_vars
\* ---------------------------------------------------------------- vocabulary of the properties
IsOnline(I) == MapHas(online, I)

OnlineIdentities == {online[i].k : i \in 1..Len(online)}

OpenSessions(I) == {s \in Sockets : st[s] = "active" /\ user[s] = I}

Verified == {s \in Sockets : user[s] # Undefined}

Last(q) == q[Len(q)]

MsgCount(q, id) ==
  Cardinality({i \in 1..Len(q) : q[i].type = "message" /\ q[i].id = id})

PresenceCount(q) == Cardinality({i \in 1..Len(q) : q[i].type = "online_users"})

InStore(id) == \E i \in 1..Len(store) : store[i].id = id

\* steps, recognised by what they do to a session or to a route call
Registered(s) == st[s] = "pending" /\ st'[s] = "active"

Deregistered(s) == st[s] = "active" /\ st'[s] = "closed"

Created(c) == calls[c].pc = "create" /\ calls'[c].pc = "find"

Delivered(c) == calls[c].pc = "find" /\ calls'[c].pc = "done"

Invalid(tok) == tok \in {NoToken, BadToken}

\* t's inbox grows by exactly one event, and that event is a copy of doc d
GetsOne(t, d) ==
  /\ Len(inbox'[t]) = Len(inbox[t]) + 1
  /\ SubSeq(inbox'[t], 1, Len(inbox[t])) = inbox[t]
  /\ MsgCount(inbox'[t], d.id) = 1
  /\ Last(inbox'[t]).type = "message"
  /\ Last(inbox'[t]).from.id = d.from
  /\ Last(inbox'[t]).to = d.to
  /\ Last(inbox'[t]).text = d.text

\* both participants find document d of call c in their history of the pair
InHistory(c) ==
  LET d == calls[c].doc
      mine == ApiMessages([id |-> d.from, ok |-> TRUE], d.to)
      theirs == ApiMessages([id |-> d.to, ok |-> TRUE], d.from)
  IN /\ mine.status = 200 /\ d \in ToSet(mine.messages.recent)
     /\ theirs.status = 200 /\ d \in ToSet(theirs.messages.recent)

\* number of documents of the pair of call c that were created before c's
EarlierInPair(c) ==
  LET d == calls[c].doc
  IN OlderMatching(d.from, d.to)
       + Cardinality({m \in Matching(d.from, d.to) : m.createdAt < d.createdAt})

\* ---------------------------------------------------------------- properties
\* C1: in every reachable state an identity is a key of the presence table
\* if and only if it has at least one open, verified session.
C1_PresenceIffOpenSession ==
  \A I \in Ids : IsOnline(I) <=> OpenSessions(I) # {}

\* C2: when one of two connected sessions of an identity disconnects, the
\* identity is still in the presence table and in the broadcast that follows.
C2_OnlineUntilLastSessionCloses ==
  [][\A s, t \in Sockets :
       (s # t /\ st[s] = "active" /\ st[t] = "active" /\ user[s] = user[t]
          /\ Deregistered(s))
       => /\ MapHas(online', user[t])
          /\ Last(inbox'[t]).type = "online_users"
          /\ user[t] \in ToSet(Last(inbox'[t]).ids)]_vars

\* C3: a message from A to a different identity B, delivered while A's
\* session is open and B has one open session, reaches each of the two
\* connections exactly once with from=A, to=B and the text, and its append
\* adds exactly one record with that content to the store.
C3_BothReceiveExactlyOne ==
  [][\A c \in CallIds :
       LET d == calls[c].doc
           s == calls[c].sock
       IN /\ Created(c) => store' = Append(store, d)
          /\ (Delivered(c) /\ d.from # d.to /\ st[s] = "active"
                /\ Cardinality(OpenSessions(d.to)) = 1)
             => /\ store' = store
                /\ \A t \in {s} \cup OpenSessions(d.to) : GetsOne(t, d)]_vars

\* The delivery step of call c when the recipient has no open session: the
\* sender's open session gets the echo, nobody else gets anything.
OfflineDelivery(c) == Delivered(c) /\ OpenSessions(calls[c].doc.to) = {}

EchoOnly(c) ==
  OfflineDelivery(c) =>
    /\ st[calls[c].sock] = "active" => GetsOne(calls[c].sock, calls[c].doc)
    /\ \A t \in Sockets \ {calls[c].sock} : inbox'[t] = inbox[t]

\* A connection receives the message of call c in the delivery step of c and
\* in no other step (nothing is queued for a recipient that connects later).
NoLatePush(c) ==
  \A t \in Sockets :
    (/\ inbox'[t] # inbox[t]
     /\ MsgCount(inbox'[t], calls[c].doc.id) # MsgCount(inbox[t], calls[c].doc.id))
      => Delivered(c)

C5_InvalidCredentialInvisible ==
  /\ [](\A s \in Sockets :
         (st[s] # "idle" /\ Invalid(token[s]))
         => /\ st[s] \in {"pending", "closed"}
            /\ user[s] = Undefined
            /\ inbox[s] = <<>>
            /\ \A i \in 1..Len(online) : online[i].v # s)
  /\ [][\A s \in Sockets :
         (st[s] = "pending" /\ Invalid(token[s]) /\ st'[s] # "pending")
         => online' = online /\ inbox' = inbox]_vars

\* a forged credential was turned away while another session is connected
C5_Witness ==
  \E s, t \in Sockets :
    /\ token[s] = BadToken /\ st[s] = "closed"
    /\ st[t] = "active" /\ inbox[t] # <<>>

\* C6: a send-intent with neither text nor mediaUrl creates no store record
\* and causes no delivered event.
C6_EmptyIntentRejected ==
  \A c \in CallIds :
    (calls[c].doc.text = "" /\ calls[c].doc.mediaUrl = Null)
    => /\ ~InStore(calls[c].doc.id)
       /\ \A s \in Sockets : MsgCount(inbox[s], calls[c].doc.id) = 0

\* C7: the originating session, if still open at delivery, holds the echo of
\* an accepted send-intent exactly once.
C7_EchoExactlyOnce ==
  [][\A c \in CallIds :
       (Delivered(c) /\ st[calls[c].sock] = "active")
       => MsgCount(inbox'[calls[c].sock], calls[c].doc.id) = 1]_vars

\* C8: at delivery the message is pushed to every open session of the
\* recipient identity.
C8_EverySessionOfRecipient ==
  [][\A c \in CallIds :
       Delivered(c)
       => \A t \in OpenSessions(calls[c].doc.to) :
            MsgCount(inbox'[t], calls[c].doc.id) >= 1]_vars

\* C9: every registration and every deregistration of a verified session
\* appends one online_users event to the inbox of every session active right
\* after it, and to no other; its payload lists exactly the identities in the
\* presence table right after the step.
C9_BroadcastOnEveryChange ==
  [][\A s \in Sockets :
       (Registered(s) \/ Deregistered(s))
       => \A t \in Sockets :
            IF st'[t] = "active"
              THEN /\ Len(inbox'[t]) = Len(inbox[t]) + 1
                   /\ SubSeq(inbox'[t], 1, Len(inbox[t])) = inbox[t]
                   /\ Last(inbox'[t]).type = "online_users"
                   /\ ToSet(Last(inbox'[t]).ids) = OnlineIdentities'
                   /\ Len(Last(inbox'[t]).ids) = Cardinality(OnlineIdentities')
              ELSE inbox'[t] = inbox[t]]_vars

\* of two verified sessions one has closed; the other saw its own connect,
\* the other's connect and the other's disconnect
C9_Witness ==
  \E s, t \in Sockets :
    /\ Verified = {s, t} /\ s # t
    /\ st[s] = "closed" /\ st[t] = "active"
    /\ PresenceCount(inbox[t]) = 3
    /\ ToSet(Last(inbox[t]).ids) = {user[t]}

\* C10: a send-intent whose store append failed has no delivered event in any
\* inbox.
C10_NothingDeliveredOnAppendFailure ==
  \A c \in CallIds :
    calls[c].pc = "create_failed"
    => \A s \in Sockets : MsgCount(inbox[s], calls[c].doc.id) = 0

\* an append failed while the sender and a session of the recipient were open
C10_Witness ==
  \E c \in CallIds :
    /\ calls[c].pc = "create_failed"
    /\ st[calls[c].sock] = "active"
    /\ calls[c].doc.from # calls[c].doc.to
    /\ MapHas(online, calls[c].doc.to)
    /\ OpenSessions(calls[c].doc.to) # {}

\* the route call c leaves the handler through a rejected await
Failed(c) ==
  /\ calls[c].pc \in {"create", "find"}
  /\ calls'[c].pc \in {"create_failed", "find_failed"}

\* the message events of inbox q, as the ids of their documents, in order
MsgIds(q) == SelectSeq(q, LAMBDA e : e.type = "message")

\* C11: when the append or the enrichment read of a route call fails, the
\* server keeps running, the sending session stays open and registered, and
\* no other session and no presence entry is touched.
C11_FailureStaysLocal ==
  [][\A c \in CallIds :
       Failed(c) => /\ running'
                    /\ st' = st
                    /\ online' = online
                    /\ inbox' = inbox]_vars

\* C12: the from of every stored message and of every delivered event is the
\* identity that the token of the originating session was verified for,
\* whatever the payload says.
C12_FromIsVerifiedIdentity ==
  /\ \A i \in 1..Len(store) :
       \E c \in CallIds :
         /\ store[i] = calls[c].doc
         /\ ~Invalid(token[calls[c].sock])
         /\ store[i].from = token[calls[c].sock].id
  /\ \A t \in Sockets : \A j \in 1..Len(inbox[t]) :
       inbox[t][j].type = "message" =>
         \E c \in CallIds :
           /\ calls[c].doc.id = inbox[t][j].id
           /\ ~Invalid(token[calls[c].sock])
           /\ inbox[t][j].from.id = token[calls[c].sock].id

\* a session verified as u1 has a stored message that was delivered to a
\* session of u2, the only identity a payload can name as its sender
C12_Witness ==
  \E c \in CallIds : \E t \in Sockets :
    /\ calls[c].pc = "done"
    /\ token[calls[c].sock].id = "u1"
    /\ InStore(calls[c].doc.id)
    /\ user[t] = "u2"
    /\ MsgCount(inbox[t], calls[c].doc.id) = 1

\* C13: every delivered event is the populated copy of a record that is in
\* the store, and a record enters the store only in the append step of its
\* own route call, which comes before the delivery step of that call.
C13_DeliveryAfterDurability ==
  /\ [](\A t \in Sockets : \A j \in 1..Len(inbox[t]) :
          inbox[t][j].type = "message" => InStore(inbox[t][j].id))
  /\ [][\A c \in CallIds :
          /\ Delivered(c) => InStore(calls[c].doc.id)
          /\ (~InStore(calls[c].doc.id) /\ InStore(calls[c].doc.id)')
               => Created(c)]_vars

\* two route calls in flight together: the later one has been delivered
\* while the earlier one is still waiting for its append
C13_Witness ==
  \E c, e \in CallIds : \E t \in Sockets :
    /\ c < e
    /\ calls[c].pc = "create"
    /\ calls[e].pc = "done"
    /\ MsgCount(inbox[t], calls[e].doc.id) >= 1

\* C14: Closed is final, the presence table changes only in a registration
\* or a deregistration step, a session is deregistered in the one step that
\* closes it, and a handshake that is refused changes neither the table nor
\* any inbox.  No entry of the table ever names a session that is not Active.
C14_DeregisteredOnce ==
  /\ [](\A i \in 1..Len(online) :
          /\ st[online[i].v] = "active"
          /\ user[online[i].v] = online[i].k)
  /\ [][\A s \in Sockets :
          /\ st[s] = "closed" => st'[s] = "closed"
          /\ Deregistered(s) => online' = MapDelete(online, user[s])
          /\ (st[s] = "pending" /\ st'[s] = "closed")
               => online' = online /\ inbox' = inbox]_vars
  /\ [][online' # online
          => \E s \in Sockets :
               /\ Registered(s) \/ Deregistered(s)
               /\ \A r \in Sockets \ {s} : st'[r] = st[r]]_vars

\* a route call finished after its sending session had closed
C14_Witness ==
  \E c \in CallIds :
    /\ calls[c].pc = "done"
    /\ st[calls[c].sock] = "closed"
    /\ MsgCount(inbox[calls[c].sock], calls[c].doc.id) = 0
    /\ ~MapHas(online, calls[c].doc.from)

\* C15: a send-intent that arrives while its session is Pending never becomes
\* a route call: it is never stored and never delivered, also after the
\* session has become Active; every route call belongs to a verified session.
C15_PendingIntentDiscarded ==
  /\ [](\A c \in CallIds :
          IF calls[c].pc = "dropped"
          THEN /\ ~InStore(calls[c].doc.id)
               /\ \A t \in Sockets : MsgCount(inbox[t], calls[c].doc.id) = 0
          ELSE /\ ~Invalid(token[calls[c].sock])
               /\ st[calls[c].sock] \in {"active", "closed"}
               /\ calls[c].doc.from = user[calls[c].sock])
  /\ [][\A c \in CallIds :
          calls[c].pc = "dropped" => calls'[c].pc = "dropped"]_vars

\* a session sent an intent while Pending, became Active and then had
\* another intent routed to the end
C15_Witness ==
  \E c, e \in CallIds :
    /\ c < e
    /\ calls[c].sock = calls[e].sock
    /\ calls[c].pc = "dropped"
    /\ calls[e].pc = "done"
    /\ st[calls[c].sock] = "active"

\* C16: a connection that is not Active has received nothing, an event is
\* appended only to the inbox of an Active connection, and the first event a
\* connection receives is the broadcast of its own registration.
C16_NoEventBeforeActive ==
  /\ [](\A t \in Sockets :
          /\ st[t] \in {"idle", "pending"} => inbox[t] = <<>>
          /\ inbox[t] # <<>>
               => /\ inbox[t][1].type = "online_users"
                  /\ user[t] \in ToSet(inbox[t][1].ids))
  /\ [][\A t \in Sockets :
          inbox'[t] # inbox[t] => st'[t] = "active"]_vars

\* a session that registered last has only the broadcast of its own
\* registration, while an older session has also the three broadcasts that
\* came before it, one of them for a session that has since disconnected
C16_Witness ==
  \E r, s, t \in Sockets :
    /\ st[r] = "active"
    /\ st[s] = "closed" /\ user[s] # Undefined
    /\ st[t] = "active"
    /\ PresenceCount(inbox[r]) = 4
    /\ inbox[t] = <<OnlineUsers(online)>>

\* C17: the presence map holds one socket id per identity: a registration
\* replaces the id stored for the identity, any disconnect of a session of
\* the identity removes the identity, and a message delivered while the
\* identity is absent from the map reaches no session but the sender's.
C17_SingleHandlePerIdentity ==
  /\ [](\A i, j \in 1..Len(online) : online[i].k = online[j].k => i = j)
  /\ [][/\ \A s \in Sockets :
             /\ Registered(s) => MapGet(online', user'[s]) = s
             /\ Deregistered(s) => ~MapHas(online', user[s])
        /\ \A c \in CallIds :
             (Delivered(c) /\ ~MapHas(online, calls[c].doc.to))
               => \A t \in Sockets \ {calls[c].sock} : inbox'[t] = inbox[t]]_vars

\* an identity with a closed and an open session is absent from the map; a
\* sender that had seen a broadcast without it got its echo right after,
\* and the open session of the recipient has no copy
C17_Witness ==
  \E c \in CallIds : \E t, r \in Sockets :
    LET d == calls[c].doc
        q == inbox[calls[c].sock]
    IN /\ calls[c].pc = "done"
       /\ st[t] = "active" /\ user[t] = d.to
       /\ st[r] = "closed" /\ user[r] = d.to
       /\ t # calls[c].sock
       /\ ~MapHas(online, d.to)
       /\ Last(inbox[t]).type = "online_users"
       /\ d.to \notin ToSet(Last(inbox[t]).ids)
       /\ MsgCount(inbox[t], d.id) = 0
       /\ Len(q) >= 2
       /\ Last(q).type = "message" /\ Last(q).id = d.id
       /\ q[Len(q) - 1].type = "online_users"
       /\ d.to \notin ToSet(q[Len(q) - 1].ids)

\* C18: a delivered event is found only in the inbox of the session that
\* sent the intent and in inboxes of sessions of the recipient identity.
C18_OnlySenderAndRecipient ==
  \A t \in Sockets : \A j \in 1..Len(inbox[t]) :
    inbox[t][j].type = "message" =>
      \E c \in CallIds :
        /\ calls[c].doc.id = inbox[t][j].id
        /\ t = calls[c].sock \/ user[t] = inbox[t][j].to

\* a message was delivered to a session of its recipient while a session
\* that is neither the sending one nor one of the recipient was open since
\* before the sending session connected, and that session has no copy
C18_Witness ==
  \E c \in CallIds : \E t, r \in Sockets :
    LET d == calls[c].doc
    IN /\ calls[c].pc = "done"
       /\ t < calls[c].sock
       /\ st[t] = "active"
       /\ user[t] # d.to
       /\ MsgCount(inbox[t], d.id) = 0
       /\ r # calls[c].sock
       /\ user[r] = d.to
       /\ MsgCount(inbox[r], d.id) = 1

\* C19: closing the sending session does not touch its route calls; when the
\* delivery step runs after the sender has closed, the record is in the
\* store exactly once, the sender gets no echo, and the session that the
\* presence map names for the recipient at that moment gets the event.
C19_SenderClosedMidRoute ==
  [][/\ \A s \in Sockets : Deregistered(s) => calls' = calls /\ store' = store
     /\ \A c \in CallIds :
          LET d == calls[c].doc
              r == MapGet(online, d.to)
          IN (Delivered(c) /\ st[calls[c].sock] = "closed")
               => /\ store' = store
                  /\ Cardinality({i \in 1..Len(store) : store[i].id = d.id}) = 1
                  /\ inbox'[calls[c].sock] = inbox[calls[c].sock]
                  /\ r # NoSocket => GetsOne(r, d)
                  /\ \A t \in Sockets \ {r} : inbox'[t] = inbox[t]]_vars

\* the sender closed during the call: it has no echo, the message is stored
\* and a session of the recipient that connected after the intent was sent
\* has the event
C19_Witness ==
  \E c \in CallIds : \E r \in Sockets :
    /\ calls[c].pc = "done"
    /\ st[calls[c].sock] = "closed"
    /\ MsgCount(inbox[calls[c].sock], calls[c].doc.id) = 0
    /\ InStore(calls[c].doc.id)
    /\ user[r] = calls[c].doc.to
    /\ MsgCount(inbox[r], calls[c].doc.id) = 1

\* C20: two intents that one session sends to the same recipient are
\* delivered in the order in which they were sent: in every inbox the event
\* of the earlier intent comes before the event of the later one.
C20_DeliveredInSubmissionOrder ==
  \A t \in Sockets : \A i, j \in 1..Len(inbox[t]) :
    (/\ i < j
     /\ inbox[t][i].type = "message"
     /\ inbox[t][j].type = "message"
     /\ calls[inbox[t][i].id].sock = calls[inbox[t][j].id].sock
     /\ inbox[t][i].to = inbox[t][j].to)
    => inbox[t][i].id <= inbox[t][j].id

====
